---- MODULE Spec2Model ----
(***************************************************************************)
(* Item CRUD backend (Express handlers over a Prisma-backed Item table).   *)
(*                                                                         *)
(* Strings are sequences of one-character strings, so that trim() is       *)
(* computed.  JSON numbers are decimal literals m * 10^e, so that          *)
(* fractions (-0.01, 1.5) and integers beyond the 32-bit INTEGER column    *)
(* (3e9) are both values of the model.  Timestamps are milliseconds.       *)
(***************************************************************************)
EXTENDS Integers, Sequences, FiniteSets, TLC

VARIABLES
    store,      \* the Item table: id -> row
    created,    \* the ids of the rows inserted so far, in insertion order
    deleted,    \* the ids whose delete request succeeded
    now,        \* the clock the ORM reads, in milliseconds
    nreq,       \* number of requests served so far
    req,        \* the last request: [op, id, body]
    res,        \* the response written for it
    prev,       \* the Item table as it was when the last request arrived
    reads,      \* id -> rows returned by get-by-id since the last mutation
    repeated,   \* whether the last request equals the one served before it
    prevStatus, \* the status answered to the request served before it
    NODE_ENV,   \* process.env.NODE_ENV
    failure,    \* the error the last request handed to the error middleware
    twin,       \* a second error put through the middleware, and its response
    proc,       \* the process: listener, connections, handle, timers, exit
    client,     \* the persistence-client module: cache, global, handles
    effects,    \* what the last request's handler did: calls, writes, forwards
    pending     \* the requests in flight whose statements may interleave

vars ==
    <<store, created, deleted, now, nreq, req, res, prev, reads, repeated,
      prevStatus, NODE_ENV, failure, twin, proc, client, effects, pending>>

\* ------------------------------------------------------------------ bounds
MaxItems == 2
MaxReqs == 3
MaxKeys == 1
MaxTime == 1
MaxKeysV == 2
MaxFailures == 2
MaxSignals == 2
MaxInflight == 2
MaxLoads == 2
MaxSlots == 2

\* ----------------------------------------------------------------- strings
WhiteSpace == {" ", "\t"}

RECURSIVE TrimStart(_)
TrimStart(s) ==
    IF s # << >> /\ Head(s) \in WhiteSpace THEN TrimStart(Tail(s)) ELSE s

RECURSIVE TrimEnd(_)
TrimEnd(s) ==
    IF s # << >> /\ s[Len(s)] \in WhiteSpace
    THEN TrimEnd(SubSeq(s, 1, Len(s) - 1))
    ELSE s

\* String.prototype.trim
Trim(s) == TrimEnd(TrimStart(s))

\* ------------------------------------------------------------- JSON values
Undefined == [t |-> "undefined"]
Null == [t |-> "null"]
JStr(s) == [t |-> "string", v |-> s]
JNum(m, e) == [t |-> "number", m |-> m, e |-> e]

\* the typeof operator
TypeOf(x) ==
    CASE x.t = "undefined" -> "undefined"
      [] x.t = "null" -> "object"
      [] x.t = "string" -> "string"
      [] x.t = "number" -> "number"

RECURSIVE Pow10(_)
Pow10(n) == IF n = 0 THEN 1 ELSE 10 * Pow10(n - 1)

\* x < 0 on a number m * 10^e
Negative(x) == x.m < 0

\* Number.isInteger on a number m * 10^e
IsInteger(x) == x.e >= 0 \/ x.m % Pow10(0 - x.e) = 0

\* the largest value of the INTEGER (int4) column "quantity"
Int4Max == 2147483647

\* whether the integer m * 10^e fits the INTEGER column
FitsInt4(x) ==
    IF x.e <= 0 THEN TRUE
    ELSE x.m <= Int4Max \div Pow10(x.e) /\ x.m >= 0 - (Int4Max \div Pow10(x.e))

\* -------------------------------------------------------------- timestamps
\* An unparseable date string, as a character sequence
Garbage == <<"n", "o", "p", "e">>

\* "1970-01-01T00:00:00.001Z"
IsoOne == <<"1","9","7","0","-","0","1","-","0","1","T",
            "0","0",":","0","0",":","0","0",".","0","0","1","Z">>

InvalidDate == [valid |-> FALSE, ms |-> 0]
ValidDate(ms) == [valid |-> TRUE, ms |-> ms]

\* Date.parse on the date strings of the input domain: the ISO string gives
\* its millisecond, the empty string and every other text give NaN
DateParse(s) == IF s = IsoOne THEN ValidDate(1) ELSE InvalidDate

\* new Date(x) for a JSON value x other than undefined
NewDate(x) ==
    CASE x.t = "null" -> ValidDate(0)
      [] x.t = "string" -> DateParse(x.v)
      [] x.t = "number" ->
            IF x.e >= 0 THEN ValidDate(x.m * Pow10(x.e))
            ELSE IF x.m >= 0 THEN ValidDate(x.m \div Pow10(0 - x.e))
            ELSE ValidDate(0 - ((0 - x.m) \div Pow10(0 - x.e)))

\* ------------------------------------------------------------ schema (DDL)
DefaultName == <<"i","t","e","m">>
DefaultDescription ==
    <<"i","t","e","m"," ","d","e","s","c","r","i","p","t","i","o","n">>
DefaultQuantity == JNum(1, 0)
DefaultUnitPrice == JNum(0, 0)
DefaultCategory == <<"T","e","m","p","o","r","a","r","y">>
DefaultOwnerID == <<"a","d","m","i","n","-","1">>

\* ---------------------------------------------------------------- requests
RecognizedKeys ==
    <<"name", "description", "quantity", "unitPrice", "category", "date",
      "ownerID">>
OtherKeys == <<"id", "createdAt", "updatedAt">>
BodyKeys == RecognizedKeys \o OtherKeys

X == <<"x">>
PaddedX == <<" ", "x", " ">>
Blank == <<" ", "\t">>
Empty == << >>

\* The values a request may give each key in the CRUD specification
CrudValues ==
    [name |-> {JStr(PaddedX), JStr(Empty)},
     description |-> {JStr(<<" ", "d">>)},
     quantity |-> {JNum(0, 0), JNum(-1, 0), JNum(3, 9)},
     unitPrice |-> {JNum(25, -1)},
     category |-> {JStr(<<"c", " ">>)},
     date |-> {JStr(IsoOne), JStr(Garbage), Null},
     ownerID |-> {JStr(<<"o">>)},
     id |-> {JStr(<<"a">>)},
     createdAt |-> {JNum(9, 0)},
     updatedAt |-> {JNum(9, 0)}]

\* The values a request may give each key in the validation specification
AllValues ==
    [name |-> {Null, JNum(5, 0), JStr(Empty), JStr(Blank), JStr(X),
               JStr(PaddedX)},
     description |-> {Null, JNum(5, 0), JStr(Empty), JStr(<<" ", "d">>)},
     quantity |-> {Null, JStr(<<"1">>), JNum(-1, 0), JNum(0, 0), JNum(15, -1),
                   JNum(2, 0), JNum(3, 9)},
     unitPrice |-> {Null, JStr(<<"1">>), JNum(-1, -2), JNum(0, 0),
                    JNum(25, -1)},
     category |-> {Null, JStr(Blank), JStr(<<"c", " ">>)},
     date |-> {Null, JStr(Garbage), JStr(IsoOne), JNum(7, 0)},
     ownerID |-> {Null, JStr(Empty), JStr(<<"o">>)},
     id |-> {JStr(<<"a">>)},
     createdAt |-> {JNum(9, 0)},
     updatedAt |-> {JNum(9, 0)}]

\* Request bodies over the keys ks that supply at most n of them
RECURSIVE BodiesOver(_, _, _)
BodiesOver(ks, n, vals) ==
    IF ks = << >> THEN {<< >>}
    ELSE LET k == Head(ks) IN
         {(k :> Undefined) @@ f : f \in BodiesOver(Tail(ks), n, vals)}
         \cup (IF n = 0 THEN {}
               ELSE UNION {{(k :> v) @@ f : f \in BodiesOver(Tail(ks), n - 1, vals)}
                           : v \in vals[k]})

CrudBodies == BodiesOver(BodyKeys, MaxKeys, CrudValues)
AllBodies == BodiesOver(BodyKeys, MaxKeysV, AllValues)

\* ids the uuid() default may produce, and ids a route parameter may carry
UuidNames == <<"a", "b", "c", "d">>
Uuids == {<<UuidNames[i]>> : i \in 1..MaxItems}
RouteIds == Uuids \cup {<<" ">>}

\* a route parameter that is no UUID, and the empty one of "/items/"
NotAUuid == <<"!">>
NoId == << >>

\* ----------------------------------------------------------------- routing
Methods == {"GET", "POST", "PUT", "DELETE", "PATCH", "OPTIONS"}

\* The path "/root/seg1/seg2...": "/items/" has the one segment NoId
Path(root, segs) == [root |-> root, segs |-> segs]
HealthPath == Path("health", << >>)
ItemsPath == Path("items", << >>)
ItemPath(id) == Path("items", <<id>>)

\* The segments after the root, a trailing slash ignored (routing is not strict)
Segments(p) ==
    IF p.segs # << >> /\ p.segs[Len(p.segs)] = NoId
    THEN SubSeq(p.segs, 1, Len(p.segs) - 1)
    ELSE p.segs

\* The handler the app's route table gives a method and path; "none" when no
\* route matches
Route(m, p) ==
    LET s == Segments(p) IN
    CASE p.root = "health" /\ s = << >> /\ m = "GET" -> "health"
      [] p.root = "items" /\ s = << >> /\ m = "GET" -> "list"
      [] p.root = "items" /\ s = << >> /\ m = "POST" -> "create"
      [] p.root = "items" /\ Len(s) = 1 /\ s[1] # NoId /\ m = "GET" -> "get"
      [] p.root = "items" /\ Len(s) = 1 /\ s[1] # NoId /\ m = "PUT" -> "update"
      [] p.root = "items" /\ Len(s) = 1 /\ s[1] # NoId /\ m = "DELETE" -> "delete"
      [] OTHER -> "none"

\* The methods some route of the path's router handles
Allowed(p) == {m \in Methods : Route(m, p) # "none"}

\* req.params.id
ParamId(p) == IF Len(Segments(p)) = 1 THEN Segments(p)[1] ELSE NoId

\* --------------------------------------------------------------- responses
NoPayload == [k |-> "none"]
ItemPayload(row) == [k |-> "item", item |-> row]
ListPayload(rows) == [k |-> "list", items |-> rows]
DeletedPayload == [k |-> "deleted"]
HealthPayload(t) == [k |-> "health", timestamp |-> t]

\* res.status(s).json(...) written by a handler
Reply(status, payload) ==
    [status |-> status, error |-> "none", via |-> "handler", payload |-> payload]

\* res.status(s).json({ error: m }) written inline by a handler
Reject(status, m) ==
    [status |-> status, error |-> m, via |-> "handler", payload |-> NoPayload]

\* ------------------------------------------------- error-translation layer
\* Errors carry statusCode (0 when the property is absent), message and
\* stack; the stack text starts with the message
StackOf(message) == <<message, "at">>

PrismaKnownRequestError(code, message) ==
    [kind |-> "known", code |-> code, statusCode |-> 0,
     message |-> message, stack |-> StackOf(message)]
PrismaValidationError(message) ==
    [kind |-> "validation", code |-> "none", statusCode |-> 0,
     message |-> message, stack |-> StackOf(message)]

\* Any other Error, with the statusCode property some middleware gave it
OtherError(statusCode, message) ==
    [kind |-> "error", code |-> "none", statusCode |-> statusCode,
     message |-> message, stack |-> StackOf(message)]

KnownRequestError(code) ==
    PrismaKnownRequestError(code, "Invalid prisma invocation")
ValidationError == PrismaValidationError("Invalid prisma invocation")

\* What express.json() raises for a body that is not JSON
BodyParseError == OtherError(400, "Unexpected token")

NoError == [kind |-> "none"]

\* A middleware that adds stack and details whenever NODE_ENV is not
\* 'production'
errorHandlerVerbose(err) ==
    LET known == err.kind = "known"
        status == CASE known /\ err.code = "P2025" -> 404
                    [] known /\ err.code \in {"P2002", "P2003"} -> 400
                    [] err.kind = "validation" -> 400
                    [] err.statusCode # 0 -> err.statusCode
                    [] OTHER -> 500
        message == CASE known /\ err.code = "P2002" ->
                            "A record with this value already exists"
                     [] known /\ err.code = "P2025" -> "Record not found"
                     [] known /\ err.code = "P2003" ->
                            "Invalid reference to related record"
                     [] err.kind = "validation" -> "Invalid data provided"
                     [] err.message # "" -> err.message
                     [] OTHER -> "Internal Server Error"
        body == [status |-> status, error |-> message,
                 via |-> "errorHandler", payload |-> NoPayload]
    IN IF NODE_ENV # "production"
       THEN [stack |-> err.stack, details |-> err.message] @@ body
       ELSE body

\* A middleware that answers every error it does not map with 500
errorHandlerAlways500(err) ==
    LET known == err.kind = "known"
        status == CASE known /\ err.code = "P2025" -> 404
                    [] known /\ err.code \in {"P2002", "P2003"} -> 400
                    [] err.kind = "validation" -> 400
                    [] OTHER -> 500
        message == CASE known /\ err.code = "P2002" ->
                            "A record with this value already exists"
                     [] known /\ err.code = "P2025" -> "Record not found"
                     [] known /\ err.code = "P2003" ->
                            "Invalid reference to related record"
                     [] err.kind = "validation" -> "Invalid data provided"
                     [] err.message # "" -> err.message
                     [] OTHER -> "Internal Server Error"
    IN [status |-> status, error |-> message, via |-> "errorHandler",
        payload |-> NoPayload]

\* A middleware that maps no error code and answers with the error's own
\* status and message
errorHandlerUnmapped(err) ==
    [status |-> IF err.statusCode # 0 THEN err.statusCode ELSE 500,
     error |-> IF err.message # "" THEN err.message ELSE "Internal Server Error",
     via |-> "errorHandler", payload |-> NoPayload]

errorHandler(err) ==
    LET status0 == IF err.statusCode # 0 THEN err.statusCode ELSE 500
        message0 == IF err.message # "" THEN err.message
                    ELSE "Internal Server Error"
        known == err.kind = "known"
        status1 == IF known /\ err.code = "P2002" THEN 400 ELSE status0
        message1 == IF known /\ err.code = "P2002"
                    THEN "A record with this value already exists" ELSE message0
        status2 == IF known /\ err.code = "P2025" THEN 404 ELSE status1
        message2 == IF known /\ err.code = "P2025"
                    THEN "Record not found" ELSE message1
        status3 == IF known /\ err.code = "P2003" THEN 400 ELSE status2
        message3 == IF known /\ err.code = "P2003"
                    THEN "Invalid reference to related record" ELSE message2
        status4 == IF err.kind = "validation" THEN 400 ELSE status3
        message4 == IF err.kind = "validation"
                    THEN "Invalid data provided" ELSE message3
        body == [status |-> status4, error |-> message4,
                 via |-> "errorHandler", payload |-> NoPayload]
    IN IF NODE_ENV = "development"
       THEN [stack |-> err.stack, details |-> err.message] @@ body
       ELSE body

\* The router's own answer to OPTIONS for a path that has routes
OptionsResponse(allow) ==
    [status |-> 200, error |-> "none", via |-> "router",
     payload |-> [k |-> "allow", methods |-> allow]]

\* A not-found handler that hands a 404 error to the error middleware
notFoundHandlerForwarding(m, p) ==
    [status |-> 404, error |-> "Route not found", via |-> "errorHandler",
     payload |-> NoPayload, message |-> <<"Cannot", m, p>>]

\* notFoundHandler: the answer to a request no route matched
notFoundHandler(m, p) ==
    [status |-> 404, error |-> "Route not found", via |-> "notFoundHandler",
     payload |-> NoPayload, message |-> <<"Cannot", m, p>>]

\* ------------------------------------------------------ data-access layer
Threw(err, st) == [ok |-> FALSE, err |-> err, store |-> st, row |-> NoPayload]
Returned(row, st) == [ok |-> TRUE, err |-> NoPayload, store |-> st, row |-> row]

\* The errors the ORM may raise for an integer that does not fit the INTEGER
\* column: a request error with a code the middleware does not map, or a
\* validation error
OverflowErrors == {KnownRequestError("P2020"), ValidationError}

\* What the ORM rejects before any row is touched; "none" when it accepts
DataError(data, ovf) ==
    IF data.date # Undefined /\ ~NewDate(data.date).valid THEN ValidationError
    ELSE IF data.quantity # Undefined /\ ~FitsInt4(data.quantity) THEN ovf
    ELSE NoPayload

EmptyRows == << >>

\* The sequences holding each row of rows once, newest createdAt first; rows
\* with equal createdAt come in any order
OrderedByCreatedAtDesc(rows) ==
    {s \in [1..Cardinality(rows) -> rows] :
        /\ {s[i] : i \in DOMAIN s} = rows
        /\ \A i, j \in DOMAIN s : i < j => s[i].createdAt >= s[j].createdAt}

ServiceGetAllItems(st) == OrderedByCreatedAtDesc({st[i] : i \in DOMAIN st})

ServiceGetItemById(st, id) == IF id \in DOMAIN st THEN ItemPayload(st[id]) ELSE Null

ServiceCreateItem(st, data, id, t, ovf) ==
    LET e == DataError(data, ovf)
        row == [id |-> id,
                name |-> IF data.name # Undefined THEN data.name.v ELSE DefaultName,
                description |-> IF data.description # Undefined
                                THEN data.description.v ELSE DefaultDescription,
                quantity |-> IF data.quantity # Undefined
                             THEN data.quantity ELSE DefaultQuantity,
                unitPrice |-> IF data.unitPrice # Undefined
                              THEN data.unitPrice ELSE DefaultUnitPrice,
                category |-> IF data.category # Undefined
                             THEN data.category.v ELSE DefaultCategory,
                date |-> IF data.date # Undefined THEN NewDate(data.date).ms ELSE t,
                ownerID |-> IF data.ownerID # Undefined
                            THEN data.ownerID.v ELSE DefaultOwnerID,
                createdAt |-> t,
                updatedAt |-> t]
    IN IF e # NoPayload THEN Threw(e, st)
       ELSE Returned(row, (id :> row) @@ st)

\* An update that writes the whole row, omitted fields back to their defaults
ServiceUpdateItemReplacing(st, id, data, t, ovf) ==
    LET e == DataError(data, ovf)
        old == st[id]
        row == [ServiceCreateItem(EmptyRows, data, id, t, ovf).row
                    EXCEPT !.createdAt = old.createdAt]
    IN IF e # NoPayload THEN Threw(e, st)
       ELSE IF id \notin DOMAIN st THEN Threw(KnownRequestError("P2025"), st)
       ELSE Returned(row, [st EXCEPT ![id] = row])

\* An update that stamps createdAt as well as updatedAt
ServiceUpdateItemRestamping(st, id, data, t, ovf) ==
    LET e == DataError(data, ovf)
        old == st[id]
        row == [id |-> old.id,
                name |-> IF data.name # Undefined THEN data.name.v ELSE old.name,
                description |-> IF data.description # Undefined
                                THEN data.description.v ELSE old.description,
                quantity |-> IF data.quantity # Undefined
                             THEN data.quantity ELSE old.quantity,
                unitPrice |-> IF data.unitPrice # Undefined
                              THEN data.unitPrice ELSE old.unitPrice,
                category |-> IF data.category # Undefined
                             THEN data.category.v ELSE old.category,
                date |-> IF data.date # Undefined
                         THEN NewDate(data.date).ms ELSE old.date,
                ownerID |-> IF data.ownerID # Undefined
                            THEN data.ownerID.v ELSE old.ownerID,
                createdAt |-> t,
                updatedAt |-> t]
    IN IF e # NoPayload THEN Threw(e, st)
       ELSE IF id \notin DOMAIN st THEN Threw(KnownRequestError("P2025"), st)
       ELSE Returned(row, [st EXCEPT ![id] = row])

ServiceUpdateItem(st, id, data, t, ovf) ==
    LET e == DataError(data, ovf)
        old == st[id]
        row == [id |-> old.id,
                name |-> IF data.name # Undefined THEN data.name.v ELSE old.name,
                description |-> IF data.description # Undefined
                                THEN data.description.v ELSE old.description,
                quantity |-> IF data.quantity # Undefined
                             THEN data.quantity ELSE old.quantity,
                unitPrice |-> IF data.unitPrice # Undefined
                              THEN data.unitPrice ELSE old.unitPrice,
                category |-> IF data.category # Undefined
                             THEN data.category.v ELSE old.category,
                date |-> IF data.date # Undefined
                         THEN NewDate(data.date).ms ELSE old.date,
                ownerID |-> IF data.ownerID # Undefined
                            THEN data.ownerID.v ELSE old.ownerID,
                createdAt |-> old.createdAt,
                updatedAt |-> t]
    IN IF e # NoPayload THEN Threw(e, st)
       ELSE IF id \notin DOMAIN st THEN Threw(KnownRequestError("P2025"), st)
       ELSE Returned(row, [st EXCEPT ![id] = row])

\* A delete that answers with the row and leaves it in the table
ServiceDeleteItemSoft(st, id) ==
    IF id \notin DOMAIN st THEN Threw(KnownRequestError("P2025"), st)
    ELSE Returned(st[id], st)

\* A delete that succeeds whether or not a row matches, as deleteMany does
ServiceDeleteItemIfPresent(st, id) ==
    IF id \notin DOMAIN st THEN Returned(NoPayload, st)
    ELSE Returned(st[id], [i \in DOMAIN st \ {id} |-> st[i]])

ServiceDeleteItem(st, id) ==
    IF id \notin DOMAIN st THEN Threw(KnownRequestError("P2025"), st)
    ELSE Returned(st[id], [i \in DOMAIN st \ {id} |-> st[i]])

\* -------------------------------------------------------- request handlers
\* What a handler did: the response and the table it leaves, the error it
\* forwarded, how many calls of the data-access layer it made and whether one
\* threw, how many responses it wrote itself and how many errors it forwarded
Handled(r, st) ==
    [res |-> r, store |-> st, err |-> NoError, calls |-> 0, threw |-> FALSE,
     written |-> 1, forwarded |-> 0]

\* next(error): the error middleware writes the response
Forwarded(e, st) ==
    [res |-> errorHandler(e), store |-> st, err |-> e, calls |-> 0,
     threw |-> FALSE, written |-> 0, forwarded |-> 1]

\* The outcome of a handler that reached its await of the data-access layer
AfterCall(threw, out) == [out EXCEPT !.calls = @ + 1, !.threw = threw]

\* !id || typeof id !== 'string' || id.trim() === ''
InvalidId(id) == id = << >> \/ Trim(id) = << >>

BadText(x) == x # Undefined /\ (TypeOf(x) # "string" \/ Trim(x.v) = << >>)

\* The inline checks of createItem, in the order of the code; "ok" when the
\* body passes them all
CreateValidate(b) ==
    IF BadText(b.name) THEN "Name must be a non-empty string"
    ELSE IF b.description # Undefined /\ TypeOf(b.description) # "string"
    THEN "Description must be a string"
    ELSE IF b.quantity # Undefined
            /\ (TypeOf(b.quantity) # "number" \/ Negative(b.quantity)
                \/ ~IsInteger(b.quantity))
    THEN "Quantity must be a non-negative integer"
    ELSE IF b.unitPrice # Undefined
            /\ (TypeOf(b.unitPrice) # "number" \/ Negative(b.unitPrice))
    THEN "Unit price must be a non-negative number"
    ELSE IF BadText(b.category) THEN "Category must be a non-empty string"
    ELSE IF BadText(b.ownerID) THEN "Owner ID must be a non-empty string"
    ELSE "ok"

\* The checks of updateItem without the one for an empty body
UpdateValidateNoEmptyCheck(b) == CreateValidate(b)

\* The checks of updateItem with null taken for an absent key when it looks
\* for an empty body
UpdateValidateNullAsAbsent(b) ==
    IF /\ b.name \in {Undefined, Null}
       /\ b.description \in {Undefined, Null}
       /\ b.quantity \in {Undefined, Null}
       /\ b.unitPrice \in {Undefined, Null}
       /\ b.category \in {Undefined, Null}
       /\ b.date \in {Undefined, Null}
       /\ b.ownerID \in {Undefined, Null}
    THEN "At least one field (name, description, quantity, unitPrice, category, date, or ownerID) must be provided"
    ELSE CreateValidate(b)

\* The checks of updateItem with the one for ownerID moved to the front
UpdateValidateOwnerFirst(b) ==
    IF /\ b.name = Undefined
       /\ b.description = Undefined
       /\ b.quantity = Undefined
       /\ b.unitPrice = Undefined
       /\ b.category = Undefined
       /\ b.date = Undefined
       /\ b.ownerID = Undefined
    THEN "At least one field (name, description, quantity, unitPrice, category, date, or ownerID) must be provided"
    ELSE IF BadText(b.ownerID) THEN "Owner ID must be a non-empty string"
    ELSE CreateValidate(b)

\* The inline checks of updateItem on the body, in the order of the code
UpdateValidate(b) ==
    IF /\ b.name = Undefined
       /\ b.description = Undefined
       /\ b.quantity = Undefined
       /\ b.unitPrice = Undefined
       /\ b.category = Undefined
       /\ b.date = Undefined
       /\ b.ownerID = Undefined
    THEN "At least one field (name, description, quantity, unitPrice, category, date, or ownerID) must be provided"
    ELSE IF b.name # Undefined
            /\ (TypeOf(b.name) # "string" \/ Trim(b.name.v) = << >>)
    THEN "Name must be a non-empty string"
    ELSE IF b.description # Undefined /\ TypeOf(b.description) # "string"
    THEN "Description must be a string"
    ELSE IF b.quantity # Undefined
            /\ (TypeOf(b.quantity) # "number" \/ Negative(b.quantity)
                \/ ~IsInteger(b.quantity))
    THEN "Quantity must be a non-negative integer"
    ELSE IF b.unitPrice # Undefined
            /\ (TypeOf(b.unitPrice) # "number" \/ Negative(b.unitPrice))
    THEN "Unit price must be a non-negative number"
    ELSE IF b.category # Undefined
            /\ (TypeOf(b.category) # "string" \/ Trim(b.category.v) = << >>)
    THEN "Category must be a non-empty string"
    ELSE IF b.ownerID # Undefined
            /\ (TypeOf(b.ownerID) # "string" \/ Trim(b.ownerID.v) = << >>)
    THEN "Owner ID must be a non-empty string"
    ELSE "ok"

Trimmed(x) == IF x # Undefined THEN JStr(Trim(x.v)) ELSE Undefined

\* createData built without trimming the text fields
CreateDataUntrimmed(b) ==
    [name |-> b.name,
     description |-> b.description,
     quantity |-> b.quantity,
     unitPrice |-> b.unitPrice,
     category |-> b.category,
     date |-> b.date,
     ownerID |-> b.ownerID]

\* createData: the seven recognized keys of a body that passed the checks
CreateData(b) ==
    [name |-> Trimmed(b.name),
     description |-> Trimmed(b.description),
     quantity |-> b.quantity,
     unitPrice |-> b.unitPrice,
     category |-> Trimmed(b.category),
     date |-> b.date,
     ownerID |-> Trimmed(b.ownerID)]

\* updateData built without trimming the text fields
UpdateDataUntrimmed(b) ==
    [name |-> b.name,
     description |-> b.description,
     quantity |-> b.quantity,
     unitPrice |-> b.unitPrice,
     category |-> b.category,
     date |-> b.date,
     ownerID |-> b.ownerID]

\* updateData: the seven recognized keys of a body that passed the checks
UpdateData(b) ==
    [name |-> Trimmed(b.name),
     description |-> Trimmed(b.description),
     quantity |-> b.quantity,
     unitPrice |-> b.unitPrice,
     category |-> Trimmed(b.category),
     date |-> b.date,
     ownerID |-> Trimmed(b.ownerID)]

getAllItems(st, order) ==
    AfterCall(FALSE, Handled(Reply(200, ListPayload(order)), st))

\* A get-by-id that counts the read in the row's quantity
getItemByIdCountingViews(st, id) ==
    IF InvalidId(id) THEN Handled(Reject(400, "Invalid item ID"), st)
    ELSE LET item == ServiceGetItemById(st, id) IN
         IF item = Null THEN Handled(Reject(404, "Item not found"), st)
         ELSE Handled(Reply(200, item),
                      [st EXCEPT ![id].quantity.m = @ + 1])

getItemById(st, id) ==
    IF InvalidId(id) THEN Handled(Reject(400, "Invalid item ID"), st)
    ELSE LET item == ServiceGetItemById(st, id) IN
         AfterCall(FALSE,
                   IF item = Null THEN Handled(Reject(404, "Item not found"), st)
                   ELSE Handled(Reply(200, item), st))

\* A create handler that hands the body's own id to the data-access layer
createItemTakingBodyId(st, b, id, t, ovf) ==
    LET v == CreateValidate(b) IN
    IF v # "ok" THEN Handled(Reject(400, v), st)
    ELSE LET r == ServiceCreateItem(st, CreateData(b),
                                    IF b.id # Undefined THEN b.id.v ELSE id,
                                    t, ovf) IN
         AfterCall(~r.ok,
                   IF r.ok THEN Handled(Reply(201, ItemPayload(r.row)), r.store)
                   ELSE Forwarded(r.err, r.store))

createItem(st, b, id, t, ovf) ==
    LET v == CreateValidate(b) IN
    IF v # "ok" THEN Handled(Reject(400, v), st)
    ELSE LET r == ServiceCreateItem(st, CreateData(b), id, t, ovf) IN
         AfterCall(~r.ok,
                   IF r.ok THEN Handled(Reply(201, ItemPayload(r.row)), r.store)
                   ELSE Forwarded(r.err, r.store))

\* An update handler that runs the statement before it checks the body
updateItemWritingFirst(st, id, b, t, ovf) ==
    IF InvalidId(id) THEN Handled(Reject(400, "Invalid item ID"), st)
    ELSE LET v == UpdateValidate(b)
             r == ServiceUpdateItem(st, id, UpdateData(b), t, ovf) IN
         AfterCall(~r.ok,
                   IF v # "ok" THEN Handled(Reject(400, v), r.store)
                   ELSE IF r.ok
                   THEN Handled(Reply(200, ItemPayload(r.row)), r.store)
                   ELSE Forwarded(r.err, r.store))

updateItem(st, id, b, t, ovf) ==
    IF InvalidId(id) THEN Handled(Reject(400, "Invalid item ID"), st)
    ELSE LET v == UpdateValidate(b) IN
         IF v # "ok" THEN Handled(Reject(400, v), st)
         ELSE LET r == ServiceUpdateItem(st, id, UpdateData(b), t, ovf) IN
              AfterCall(~r.ok,
                        IF r.ok
                        THEN Handled(Reply(200, ItemPayload(r.row)), r.store)
                        ELSE Forwarded(r.err, r.store))

\* A delete handler that answers the data-access layer's exception itself
deleteItemAnsweringErrors(st, id) ==
    IF InvalidId(id) THEN Handled(Reject(400, "Invalid item ID"), st)
    ELSE LET r == ServiceDeleteItem(st, id) IN
         AfterCall(~r.ok,
                   IF r.ok THEN Handled(Reply(200, DeletedPayload), r.store)
                   ELSE Handled(Reject(404, "Item not found"), r.store))

deleteItem(st, id) ==
    IF InvalidId(id) THEN Handled(Reject(400, "Invalid item ID"), st)
    ELSE LET r == ServiceDeleteItem(st, id) IN
         AfterCall(~r.ok,
                   IF r.ok THEN Handled(Reply(200, DeletedPayload), r.store)
                   ELSE Forwarded(r.err, r.store))

health(st, t) == Handled(Reply(200, HealthPayload(t)), st)

\* ------------------------------------------------------------ the service
EmptyBody == [k \in {BodyKeys[i] : i \in DOMAIN BodyKeys} |-> Undefined]
EmptyStore == << >>
NoReads == [i \in RouteIds |-> << >>]
NoRequest ==
    [method |-> "none", path |-> Path("none", << >>), op |-> "none",
     id |-> NoId, body |-> EmptyBody]
NoResponse ==
    [status |-> 0, error |-> "none", via |-> "none", payload |-> NoPayload]

\* The request "m p" with parsed body b, op naming the route it matches
Request(m, p, b) ==
    [method |-> m, path |-> p, op |-> Route(m, p), id |-> ParamId(p),
     body |-> b]

\* ------------------------------------------------------------ the process
\* The process as it starts, DATABASE_URL set or not.  exitCode is -1 while it
\* runs; signals are those gracefulShutdown handled; disconnects are the
\* sites of the $disconnect() calls made, settling how many are pending
Booting(url) ==
    [phase |-> "loading", url |-> url, accepting |-> FALSE,
     everListened |-> FALSE, handlers |-> FALSE, inflight |-> 0,
     signals |-> << >>, closeCallbacks |-> 0, closeEmitted |-> FALSE,
     timers |-> 0, disconnects |-> << >>, settling |-> 0, released |-> FALSE,
     log |-> {}, exitCode |-> -1]

\* process.exit(code), or the runtime ending the process with that code
exit(p, code) == [p EXCEPT !.phase = "exited", !.exitCode = code]

\* Loading the persistence client: without DATABASE_URL the module throws
loadPrisma(p) ==
    IF ~p.url THEN exit([p EXCEPT !.log = @ \cup {"uncaught"}], 1)
    ELSE [p EXCEPT !.phase = "connecting"]

\* startServer after $connect() resolved: listen, register the handlers
connected(p) ==
    [p EXCEPT !.phase = "listening", !.accepting = TRUE,
              !.everListened = TRUE, !.handlers = TRUE,
              !.log = @ \cup {"connected"}]

\* A startup that listens although $connect() was rejected
connectFailedButListens(p) ==
    [p EXCEPT !.phase = "listening", !.accepting = TRUE,
              !.everListened = TRUE, !.handlers = TRUE,
              !.log = @ \cup {"failed to start"}]

\* startServer's catch after $connect() was rejected: log, $disconnect()
connectFailed(p) ==
    [p EXCEPT !.phase = "failing", !.log = @ \cup {"failed to start"},
              !.disconnects = Append(@, "startup"), !.settling = @ + 1]

\* A shutdown that closes the handle at once, without waiting for the server
gracefulShutdownEager(p, signal) ==
    [p EXCEPT !.phase = "closing", !.signals = Append(@, signal),
              !.accepting = FALSE, !.timers = @ + 1,
              !.disconnects = Append(@, "shutdown"), !.settling = @ + 1]

\* A shutdown that sets no timer
gracefulShutdownNoTimer(p, signal) ==
    [p EXCEPT !.phase = "closing", !.signals = Append(@, signal),
              !.accepting = FALSE, !.closeCallbacks = @ + 1]

\* gracefulShutdown: server.close(callback), then the 10 s timer
gracefulShutdown(p, signal) ==
    [p EXCEPT !.phase = "closing", !.signals = Append(@, signal),
              !.accepting = FALSE, !.closeCallbacks = @ + 1,
              !.timers = @ + 1]

\* The exit code of a process a signal ended: 128 + signal number
KilledBy(signal) == IF signal = "SIGTERM" THEN 143 ELSE 130

\* A signal arrives: the registered handler, or the default disposition
onSignal(p, signal) ==
    IF p.handlers THEN gracefulShutdown(p, signal)
    ELSE exit([p EXCEPT !.log = @ \cup {"killed"}], KilledBy(signal))

\* The server's 'close' event: every callback given to server.close() runs
\* up to its await of $disconnect()
serverClosed(p) ==
    [p EXCEPT !.closeEmitted = TRUE, !.closeCallbacks = 0,
              !.disconnects = @ \o [i \in 1..p.closeCallbacks |-> "shutdown"],
              !.settling = @ + p.closeCallbacks,
              !.log = @ \cup {"server closed"}]

\* A pending $disconnect() settles.  At shutdown: exit(0) when it resolved,
\* exit(1) when it was rejected.  At startup: exit(1) when it resolved, the
\* unhandled rejection ends the process with code 1 when it was rejected
disconnectSettled(p, ok) ==
    IF p.phase = "failing"
    THEN exit([p EXCEPT !.settling = @ - 1, !.released = ok,
                        !.log = @ \cup (IF ok THEN {} ELSE {"unhandled"})], 1)
    ELSE IF ok
    THEN exit([p EXCEPT !.settling = @ - 1, !.released = TRUE,
                        !.log = @ \cup {"shutdown completed"}], 0)
    ELSE exit([p EXCEPT !.settling = @ - 1,
                        !.log = @ \cup {"shutdown error"}], 1)

\* The timer of gracefulShutdown fires
forcedExit(p) ==
    exit([p EXCEPT !.timers = @ - 1, !.log = @ \cup {"forced"}], 1)

\* A process that has connected to the store and listens
Serving == connected(loadPrisma(Booting(TRUE)))

\* ------------------------------------------- the persistence-client module
\* Handles are numbered in the order of their construction, 0 for none.
\* cached: the module is in the module cache; global: global.prisma;
\* exported: the module's export; bound: the handle the data-access layer
\* imported; used: the handles data-access calls have used
Unloaded ==
    [cached |-> FALSE, global |-> 0, exported |-> 0, bound |-> 0,
     constructed |-> 0, evaluations |-> 0, imports |-> 0, used |-> {}]

\* A module body that constructs a client whatever global.prisma holds
evaluatePrismaAlwaysNew(c, env) ==
    [c EXCEPT !.cached = TRUE, !.evaluations = @ + 1,
              !.constructed = @ + 1, !.exported = c.constructed + 1,
              !.global = IF env # "production" THEN c.constructed + 1 ELSE @]

\* The module body runs: global.prisma || new PrismaClient(...), stored on
\* the global object when NODE_ENV is not 'production'
evaluatePrisma(c, env) ==
    LET prisma == IF c.global # 0 THEN c.global ELSE c.constructed + 1 IN
    [c EXCEPT !.cached = TRUE, !.evaluations = @ + 1,
              !.constructed = IF c.global # 0 THEN @ ELSE @ + 1,
              !.exported = prisma,
              !.global = IF env # "production" THEN prisma ELSE @]

\* import prisma from '../db/prisma' in the data-access layer: the cached
\* export, the module body running first when the module is not cached
importPrisma(c, env) ==
    LET m == IF c.cached THEN c ELSE evaluatePrisma(c, env) IN
    [m EXCEPT !.imports = @ + 1, !.bound = m.exported]

\* The module cache is dropped and the application modules load again
reloadPrisma(c, env) == importPrisma([c EXCEPT !.cached = FALSE], env)

\* The module after the process has started
Loaded(env) == importPrisma(Unloaded, env)

NoEffects == [calls |-> 0, threw |-> FALSE, written |-> 0, forwarded |-> 0]

\* No request is in flight
NoPending == << >>

NoTwin == [err |-> NoError, res |-> NoResponse]

Init ==
    /\ store = EmptyStore
    /\ created = << >>
    /\ deleted = {}
    /\ now = 0
    /\ nreq = 0
    /\ req = NoRequest
    /\ res = NoResponse
    /\ prev = EmptyStore
    /\ reads = NoReads
    /\ repeated = FALSE
    /\ prevStatus = 0
    /\ NODE_ENV \in {"production", "development"}
    /\ failure = NoError
    /\ twin = NoTwin
    /\ proc = Serving
    /\ client = Loaded(NODE_ENV)
    /\ effects = NoEffects
    /\ pending = NoPending

\* One request served: the handler's response and the table it leaves
Serve(r, out) ==
    /\ nreq < MaxReqs
    /\ proc.everListened
    /\ proc.exitCode = -1
    /\ nreq' = nreq + 1
    /\ req' = r
    /\ res' = out.res
    /\ failure' = out.err
    /\ prev' = store
    /\ store' = out.store
    /\ reads' =
         IF r.op \in {"create", "update", "delete"} /\ out.res.status < 300
         THEN NoReads
         ELSE IF r.op = "get" /\ out.res.status = 200
         THEN [reads EXCEPT ![r.id] = Append(@, out.res.payload.item)]
         ELSE reads
    /\ deleted' =
         IF r.op = "delete" /\ out.res.status = 200
         THEN deleted \cup {r.id}
         ELSE deleted
    /\ repeated' = (r = req)
    /\ prevStatus' = res.status
    /\ effects' = [calls |-> out.calls, threw |-> out.threw,
                   written |-> out.written, forwarded |-> out.forwarded]
    /\ client' = IF out.calls > 0
                 THEN [client EXCEPT !.used = @ \cup {client.bound}]
                 ELSE client
    /\ UNCHANGED NODE_ENV

\* The clock advances
Tick ==
    /\ now < MaxTime
    /\ now' = now + 1
    /\ UNCHANGED <<store, created, deleted, nreq, req, res, prev, reads,
                   repeated, prevStatus, NODE_ENV, failure, twin, proc, client,
                   effects, pending>>

\* An id generator that hands out any id no stored row holds
UnusedIds == Uuids \ DOMAIN store

\* uuid(): an id never produced before
FreshIds == Uuids \ {created[i] : i \in DOMAIN created}

\* The errors the ORM may raise for the quantity of body b
OverflowChoices(b) ==
    IF TypeOf(b.quantity) = "number" /\ ~FitsInt4(b.quantity)
    THEN OverflowErrors
    ELSE {KnownRequestError("P2020")}

\* POST /items
Create(bodies) ==
    \E b \in bodies, id \in FreshIds :
      \E ovf \in OverflowChoices(b) :
        LET out == createItem(store, b, id, now, ovf) IN
        /\ Route("POST", ItemsPath) = "create"
        /\ Serve(Request("POST", ItemsPath, b), out)
        /\ created' = IF id \in DOMAIN out.store \ DOMAIN store
                       THEN Append(created, id) ELSE created
        /\ UNCHANGED <<now, twin, proc, pending>>

\* PUT /items/:id
Update(bodies) ==
    \E b \in bodies, id \in RouteIds :
      \E ovf \in OverflowChoices(b) :
        /\ Route("PUT", ItemPath(id)) = "update"
        /\ Serve(Request("PUT", ItemPath(id), b),
                 updateItem(store, id, b, now, ovf))
        /\ UNCHANGED <<created, now, twin, proc, pending>>

\* DELETE /items/:id
Delete ==
    \E id \in RouteIds :
        /\ Route("DELETE", ItemPath(id)) = "delete"
        /\ Serve(Request("DELETE", ItemPath(id), EmptyBody),
                 deleteItem(store, id))
        /\ UNCHANGED <<created, now, twin, proc, pending>>

\* GET /items/:id
GetById(ids) ==
    \E id \in ids :
        /\ Route("GET", ItemPath(id)) = "get"
        /\ Serve(Request("GET", ItemPath(id), EmptyBody),
                 getItemById(store, id))
        /\ UNCHANGED <<created, now, twin, proc, pending>>

\* GET /items
GetAll(paths) ==
    \E p \in paths, order \in ServiceGetAllItems(store) :
        /\ Route("GET", p) = "list"
        /\ Serve(Request("GET", p, EmptyBody), getAllItems(store, order))
        /\ UNCHANGED <<created, now, twin, proc, pending>>

\* GET /health
Health ==
    /\ Route("GET", HealthPath) = "health"
    /\ Serve(Request("GET", HealthPath, EmptyBody), health(store, now))
    /\ UNCHANGED <<created, now, twin, proc, pending>>

Next ==
    \/ Tick
    \/ Create(CrudBodies)
    \/ Update(CrudBodies)
    \/ Delete
    \/ GetById(RouteIds)
    \/ GetAll({ItemsPath})
    \/ Health

Spec == Init /\ [][Next]_vars

\* --------------------------------------------- validation specification
\* The table after POST /items {} at time 0
OneDefaultRow ==
    ServiceCreateItem(EmptyStore, CreateData(EmptyBody), <<"a">>, 0,
                      KnownRequestError("P2020")).store

InitV ==
    /\ store \in {EmptyStore, OneDefaultRow}
    /\ created = IF store = EmptyStore THEN << >> ELSE << <<"a">> >>
    /\ deleted = {}
    /\ now = 0
    /\ nreq = 0
    /\ req = NoRequest
    /\ res = NoResponse
    /\ prev = store
    /\ reads = NoReads
    /\ repeated = FALSE
    /\ prevStatus = 0
    /\ NODE_ENV = "production"
    /\ failure = NoError
    /\ twin = NoTwin
    /\ proc = Serving
    /\ client = Loaded(NODE_ENV)
    /\ effects = NoEffects
    /\ pending = NoPending

\* One create or update request with a body of the wide input domain
NextV ==
    \/ req = NoRequest /\ Create(AllBodies)
    \/ req = NoRequest /\ Update(AllBodies)

SpecV == InitV /\ [][NextV]_vars

\* ------------------------------------------------ dispatch specification
\* The ids a route parameter may carry, well formed or not
AllRouteIds == RouteIds \cup {NotAUuid}

Paths ==
    {HealthPath, ItemsPath, ItemPath(NoId), Path("nowhere", << >>),
     Path("items", << <<"a">>, <<"b">> >>)}
    \cup {ItemPath(id) : id \in AllRouteIds}

InitR ==
    /\ store \in {EmptyStore, OneDefaultRow}
    /\ created = IF store = EmptyStore THEN << >> ELSE << <<"a">> >>
    /\ deleted = {}
    /\ now = 0
    /\ nreq = 0
    /\ req = NoRequest
    /\ res = NoResponse
    /\ prev = store
    /\ reads = NoReads
    /\ repeated = FALSE
    /\ prevStatus = 0
    /\ NODE_ENV \in {"production", "development"}
    /\ failure = NoError
    /\ twin = NoTwin
    /\ proc = Serving
    /\ client = Loaded(NODE_ENV)
    /\ effects = NoEffects
    /\ pending = NoPending

\* A request no route matches falls through to the not-found handler
Unmatched ==
    \E m \in Methods, p \in Paths :
        /\ Route(m, p) = "none"
        /\ m = "OPTIONS" => Allowed(p) = {}
        /\ Serve(Request(m, p, EmptyBody), Handled(notFoundHandler(m, p), store))
        /\ UNCHANGED <<created, now, twin, proc, pending>>

\* A request whose body is not JSON: express.json() hands its error to the
\* error middleware before any route is tried
Unparsed ==
    \E m \in {"POST", "PUT"}, p \in Paths :
        /\ Serve([Request(m, p, EmptyBody) EXCEPT !.op = "unparsed"],
                 Forwarded(BodyParseError, store))
        /\ UNCHANGED <<created, now, twin, proc, pending>>

\* OPTIONS for a path that has routes: the router answers with their methods
Options ==
    \E p \in Paths :
        /\ Allowed(p) # {}
        /\ Serve(Request("OPTIONS", p, EmptyBody),
                 Handled(OptionsResponse(Allowed(p)), store))
        /\ UNCHANGED <<created, now, twin, proc, pending>>

NextR ==
    \/ Unmatched
    \/ Unparsed
    \/ Options
    \/ GetById(AllRouteIds)
    \/ GetAll({ItemsPath, ItemPath(NoId)})

SpecR == InitR /\ [][NextR]_vars

\* ------------------------------------------------ lifecycle specification
Signals == {"SIGTERM", "SIGINT"}
Running == proc.exitCode = -1

InitL ==
    /\ store = EmptyStore
    /\ created = << >>
    /\ deleted = {}
    /\ now = 0
    /\ nreq = 0
    /\ req = NoRequest
    /\ res = NoResponse
    /\ prev = EmptyStore
    /\ reads = NoReads
    /\ repeated = FALSE
    /\ prevStatus = 0
    /\ NODE_ENV = "production"
    /\ failure = NoError
    /\ twin = NoTwin
    /\ proc \in {Booting(TRUE), Booting(FALSE)}
    /\ client = IF proc.url THEN Loaded(NODE_ENV) ELSE Unloaded
    /\ effects = NoEffects
    /\ pending = NoPending

\* Only the process changes
ProcessStep(p) ==
    /\ proc' = p
    /\ UNCHANGED <<store, created, deleted, now, nreq, req, res, prev, reads,
                   repeated, prevStatus, NODE_ENV, failure, twin, client,
                   effects, pending>>

\* The modules load
Load == Running /\ proc.phase = "loading" /\ ProcessStep(loadPrisma(proc))

\* prisma.$connect() resolves
ConnectOk == Running /\ proc.phase = "connecting" /\ ProcessStep(connected(proc))

\* prisma.$connect() is rejected
ConnectFail ==
    Running /\ proc.phase = "connecting" /\ ProcessStep(connectFailed(proc))

\* A client connects and sends a request
Accept ==
    /\ Running
    /\ proc.accepting
    /\ proc.inflight < MaxInflight
    /\ ProcessStep([proc EXCEPT !.inflight = @ + 1])

\* A request in flight, GET /health, is answered and its connection ends
Finish ==
    /\ Running
    /\ proc.inflight > 0
    /\ Serve(Request("GET", HealthPath, EmptyBody), health(store, now))
    /\ proc' = [proc EXCEPT !.inflight = @ - 1]
    /\ UNCHANGED <<created, now, twin, pending>>

\* SIGTERM or SIGINT arrives
Signal ==
    \E signal \in Signals :
        /\ Running
        /\ Len(proc.signals) < MaxSignals
        /\ ProcessStep(onSignal(proc, signal))

\* The closing server has no connection left: 'close' is emitted
ServerClosed ==
    /\ Running
    /\ proc.everListened
    /\ ~proc.accepting
    /\ proc.inflight = 0
    /\ proc.closeCallbacks > 0
    /\ ProcessStep(serverClosed(proc))

\* A pending prisma.$disconnect() resolves or is rejected
DisconnectSettled ==
    \E ok \in BOOLEAN :
        /\ Running
        /\ proc.settling > 0
        /\ ProcessStep(disconnectSettled(proc, ok))

\* Ten seconds after a gracefulShutdown its timer fires
ForcedExit == Running /\ proc.timers > 0 /\ ProcessStep(forcedExit(proc))

NextL ==
    \/ Load
    \/ ConnectOk
    \/ ConnectFail
    \/ Accept
    \/ Finish
    \/ Signal
    \/ ServerClosed
    \/ DisconnectSettled
    \/ ForcedExit

SpecL == InitL /\ [][NextL]_vars

\* The event loop runs a timer that is due
SpecLFair == SpecL /\ WF_vars(ForcedExit)

\* ---------------------------------------- error-middleware specification
\* The values process.env.NODE_ENV may have; "" when it is not set
Envs == {"production", "development", "test", ""}

\* The messages an error may carry; "" for none
Messages == {"", "boom", "secret"}

\* The errors a handler or an earlier middleware may hand to next()
Errors ==
    {PrismaKnownRequestError(c, m) :
        c \in {"P2002", "P2025", "P2003", "P2020"}, m \in Messages}
    \cup {PrismaValidationError(m) : m \in Messages}
    \cup {OtherError(sc, m) : sc \in {0, 400, 413}, m \in Messages}

\* The same error with another message text
WithMessage(e, m) == [e EXCEPT !.message = m, !.stack = StackOf(m)]

InitE ==
    /\ store = EmptyStore
    /\ created = << >>
    /\ deleted = {}
    /\ now = 0
    /\ nreq = 0
    /\ req = NoRequest
    /\ res = NoResponse
    /\ prev = EmptyStore
    /\ reads = NoReads
    /\ repeated = FALSE
    /\ prevStatus = 0
    /\ NODE_ENV \in Envs
    /\ failure = NoError
    /\ twin = NoTwin
    /\ proc = Serving
    /\ client = Loaded(NODE_ENV)
    /\ effects = NoEffects
    /\ pending = NoPending

\* POST /items fails with error e, which goes to the error middleware; the
\* middleware is also applied to the error that differs from e in its
\* message only
Fail ==
    \E e \in Errors, m \in Messages :
        /\ m # e.message
        /\ nreq < MaxFailures
        /\ Serve(Request("POST", ItemsPath, EmptyBody), Forwarded(e, store))
        /\ twin' = [err |-> WithMessage(e, m),
                    res |-> errorHandler(WithMessage(e, m))]
        /\ UNCHANGED <<created, now, proc, pending>>

NextE == Fail

SpecE == InitE /\ [][NextE]_vars

\* -------------------------------------- persistence-client specification
\* The process before any module has imported the persistence client
InitP ==
    /\ store = EmptyStore
    /\ created = << >>
    /\ deleted = {}
    /\ now = 0
    /\ nreq = 0
    /\ req = NoRequest
    /\ res = NoResponse
    /\ prev = EmptyStore
    /\ reads = NoReads
    /\ repeated = FALSE
    /\ prevStatus = 0
    /\ NODE_ENV \in Envs
    /\ failure = NoError
    /\ twin = NoTwin
    /\ proc = Serving
    /\ client = Unloaded
    /\ effects = NoEffects
    /\ pending = NoPending

\* What stays as it is when only the client module changes
ClientStep ==
    UNCHANGED <<store, created, deleted, now, nreq, req, res, prev, reads,
                repeated, prevStatus, NODE_ENV, failure, twin, proc, effects,
                pending>>

\* A module of the application imports the client module
Import ==
    /\ client.imports < MaxLoads
    /\ client' = importPrisma(client, NODE_ENV)
    /\ ClientStep

\* The application modules are loaded again, the client module with them
Reload ==
    /\ client.cached
    /\ client.evaluations <= MaxLoads
    /\ client' = reloadPrisma(client, NODE_ENV)
    /\ ClientStep

\* A request whose handler makes a data-access call
Query ==
    /\ client.bound # 0
    /\ GetById(RouteIds)

NextP ==
    \/ Import
    \/ Reload
    \/ Query

SpecP == InitP /\ [][NextP]_vars

\* ---------------------------------------------- concurrency specification
\* The table after POST /items {} twice at time 0
TwoDefaultRows ==
    ServiceCreateItem(OneDefaultRow, CreateData(EmptyBody), <<"b">>, 0,
                      KnownRequestError("P2020")).store

InitC ==
    /\ store \in {OneDefaultRow, TwoDefaultRows}
    /\ created = IF store = OneDefaultRow THEN << <<"a">> >>
                 ELSE << <<"a">>, <<"b">> >>
    /\ deleted = {}
    /\ now = 0
    /\ nreq = 0
    /\ req = NoRequest
    /\ res = NoResponse
    /\ prev = store
    /\ reads = NoReads
    /\ repeated = FALSE
    /\ prevStatus = 0
    /\ NODE_ENV = "production"
    /\ failure = NoError
    /\ twin = NoTwin
    /\ proc = Serving
    /\ client = Loaded(NODE_ENV)
    /\ effects = NoEffects
    /\ pending = NoPending

\* The update and delete requests that may arrive
Writes ==
    {Request("PUT", ItemPath(id), b) : id \in RouteIds, b \in CrudBodies}
    \cup {Request("DELETE", ItemPath(id), EmptyBody) : id \in RouteIds}

\* The handler of request r run against table st at time t
Handle(r, st, t, ovf) ==
    IF r.op = "update" THEN updateItem(st, r.id, r.body, t, ovf)
    ELSE deleteItem(st, r.id)

\* The slots whose request awaits its statement
Awaiting == {i \in DOMAIN pending : pending[i].res = NoResponse}

\* A request in flight: before is the table it arrived at, open the slots
\* that awaited their statement then
Inflight(r, answer) ==
    [req |-> r, res |-> answer, before |-> store, open |-> Awaiting]

\* A request arrives and its handler answers it before any await
Refuse ==
    \E r \in Writes :
        LET out == Handle(r, store, now, KnownRequestError("P2020")) IN
        /\ Len(pending) < MaxSlots
        /\ out.calls = 0
        /\ Serve(r, out)
        /\ pending' = Append(pending, Inflight(r, out.res))
        /\ UNCHANGED <<created, now, twin, proc>>

\* A request arrives and its handler awaits the data-access call; the
\* event loop is free for other requests
Arrive ==
    \E r \in Writes :
        /\ Len(pending) < MaxSlots
        /\ Handle(r, store, now, KnownRequestError("P2020")).calls > 0
        /\ pending' = Append(pending, Inflight(r, NoResponse))
        /\ UNCHANGED <<store, created, deleted, now, nreq, req, res, prev,
                       reads, repeated, prevStatus, NODE_ENV, failure, twin,
                       proc, client, effects>>

\* The store executes the one statement of an awaiting request and the
\* handler resumes: it writes the response or forwards the error
Settle ==
    \E i \in Awaiting :
      \E ovf \in OverflowChoices(pending[i].req.body) :
        LET out == Handle(pending[i].req, store, now, ovf) IN
        /\ Serve(pending[i].req, out)
        /\ pending' = [pending EXCEPT ![i].res = out.res]
        /\ UNCHANGED <<created, now, twin, proc>>

NextC ==
    \/ Tick
    \/ Refuse
    \/ Arrive
    \/ Settle

SpecC == InitC /\ [][NextC]_vars

\* ------------------------------------------------- the documented contract
\* Some character of s is not whitespace
HasInk(s) == \E i \in DOMAIN s : s[i] \notin WhiteSpace

\* Whether value x breaks the documented rule of field k
RuleViolated(k, x) ==
    CASE k \in {"name", "category", "ownerID"} ->
            ~(x.t = "string" /\ HasInk(x.v))
      [] k = "description" -> x.t # "string"
      [] k = "quantity" ->
            ~(x.t = "number" /\ x.m >= 0 /\ (x.e >= 0 \/ x.m % Pow10(0 - x.e) = 0))
      [] k = "unitPrice" -> ~(x.t = "number" /\ x.m >= 0)
      [] OTHER -> FALSE

Recognized == {RecognizedKeys[i] : i \in DOMAIN RecognizedKeys}
TextKeys == {"name", "description", "category", "ownerID"}

BodyViolates(b) ==
    \E k \in Recognized : b[k] # Undefined /\ RuleViolated(k, b[k])

SuppliesRecognized(b) == \E k \in Recognized : b[k] # Undefined

\* The storage layer takes the data: the date converts, the quantity fits
StorageAccepts(b) ==
    /\ b.date # Undefined => NewDate(b.date).valid
    /\ TypeOf(b.quantity) = "number" => FitsInt4(b.quantity)

SchemaDefault(k) ==
    CASE k = "name" -> DefaultName
      [] k = "description" -> DefaultDescription
      [] k = "quantity" -> DefaultQuantity
      [] k = "unitPrice" -> DefaultUnitPrice
      [] k = "category" -> DefaultCategory
      [] k = "ownerID" -> DefaultOwnerID

\* The supplied value x of field k as sent
AsSent(k, x) ==
    IF k \in TextKeys THEN x.v ELSE IF k = "date" THEN NewDate(x).ms ELSE x

\* The supplied value x of field k, text trimmed
AsStored(k, x) ==
    IF k \in TextKeys THEN Trim(x.v) ELSE IF k = "date" THEN NewDate(x).ms ELSE x

NonBlank(id) == HasInk(id)

\* ------------------------------------------------------------------ claims
Created == req.op = "create" /\ res.status = 201
ValidCreate == req.op = "create" /\ ~BodyViolates(req.body)

\* C1 as stated, on the bodies the storage layer takes: every create whose
\* body passes validation is answered 201 with the persisted item, createdAt
\* = updatedAt, each supplied field holding the supplied value and each
\* omitted field its schema default.
C1_Original ==
    (ValidCreate /\ StorageAccepts(req.body)) =>
        /\ res.status = 201
        /\ res.payload.k = "item"
        /\ LET it == res.payload.item IN
           /\ it.id \in DOMAIN store
           /\ store[it.id] = it
           /\ it.createdAt = it.updatedAt
           /\ \A k \in Recognized :
                IF req.body[k] # Undefined THEN it[k] = AsSent(k, req.body[k])
                ELSE k # "date" => it[k] = SchemaDefault(k)

\* C1 amended: a create whose body passes validation is answered 201 with the
\* persisted item when the storage layer takes the data, with createdAt =
\* updatedAt, each supplied text field holding the supplied value trimmed,
\* quantity and unitPrice the supplied number, date the converted timestamp,
\* and each omitted field its schema default; when the storage layer refuses
\* the data (unparseable date, quantity beyond 32 bits) the answer is the
\* error middleware's 400 or 500 and nothing is stored.
C1_CreateStoresTrimmedOrDefaults ==
    ValidCreate =>
        IF StorageAccepts(req.body)
        THEN /\ res.status = 201
             /\ res.via = "handler"
             /\ res.payload.k = "item"
             /\ LET it == res.payload.item IN
                /\ it.id \in DOMAIN store \ DOMAIN prev
                /\ store[it.id] = it
                /\ \A i \in DOMAIN prev : store[i] = prev[i]
                /\ it.createdAt = it.updatedAt
                /\ \A k \in Recognized :
                     IF req.body[k] # Undefined
                     THEN it[k] = AsStored(k, req.body[k])
                     ELSE k # "date" => it[k] = SchemaDefault(k)
        ELSE /\ res.via = "errorHandler"
             /\ res.status \in {400, 500}
             /\ store = prev

\* A create answered 201 whose name came with surrounding whitespace
C1_Witness ==
    /\ Created
    /\ req.body.name = JStr(PaddedX)
    /\ res.payload.item.name = X
    /\ res.payload.item.quantity = DefaultQuantity

UpdatedOk == req.op = "update" /\ res.status = 200

\* C2: a successful update leaves every field of the item that the body did
\* not supply, its id and its createdAt as they were, and changes no other
\* item of the store.
C2_UpdateFrame ==
    UpdatedOk =>
        /\ DOMAIN store = DOMAIN prev
        /\ req.id \in DOMAIN prev
        /\ \A i \in DOMAIN prev \ {req.id} : store[i] = prev[i]
        /\ store[req.id].id = prev[req.id].id
        /\ store[req.id].createdAt = prev[req.id].createdAt
        /\ \A k \in Recognized :
             IF req.body[k] = Undefined
             THEN store[req.id][k] = prev[req.id][k]
             ELSE store[req.id][k] = AsStored(k, req.body[k])
        /\ res.payload = ItemPayload(store[req.id])

\* A successful update that changed a field of one of two stored items
C2_Witness ==
    /\ UpdatedOk
    /\ Cardinality(DOMAIN store) = 2
    /\ \E k \in Recognized : store[req.id][k] # prev[req.id][k]
    /\ store[req.id].updatedAt > prev[req.id].updatedAt

\* Create, or update with a non-blank id and at least one recognized field
BodyJudged ==
    \/ req.op = "create"
    \/ req.op = "update" /\ NonBlank(req.id) /\ SuppliesRecognized(req.body)

\* C3 as stated: such a body is rejected with 400 if and only if a supplied
\* field violates its own rule, date never being a cause for rejection.
C3_Original == BodyJudged => (res.status = 400 <=> BodyViolates(req.body))

\* An update with a valid non-empty body, or a delete, that reaches the data
\* access layer with an id that is not in the store
MissesRow ==
    /\ NonBlank(req.id)
    /\ req.id \notin DOMAIN prev
    /\ \/ req.op = "delete"
       \/ /\ req.op = "update"
          /\ SuppliesRecognized(req.body)
          /\ ~BodyViolates(req.body)

\* C4 as stated: an update with a valid non-empty body, or a delete, whose id
\* is not in the store is answered 404 through the error middleware (P2025)
\* and the store is unchanged.
C4_Original ==
    MissesRow =>
        /\ res.status = 404
        /\ res.via = "errorHandler"
        /\ res.error = "Record not found"
        /\ store = prev

\* C5: PUT with a non-blank id and a body without any recognized field is
\* answered 400 "At least one field ... must be provided", whether or not the
\* id exists, and the store is unchanged.
C5_EmptyUpdateRejected ==
    (req.op = "update" /\ NonBlank(req.id) /\ ~SuppliesRecognized(req.body)) =>
        /\ res.status = 400
        /\ res.via = "handler"
        /\ res.error = "At least one field (name, description, quantity, unitPrice, category, date, or ownerID) must be provided"
        /\ store = prev

\* Such a request for an existing id, its body holding only an unrecognized key
C5_Witness ==
    /\ req.op = "update"
    /\ req.id \in DOMAIN store
    /\ req.body.id # Undefined
    /\ ~SuppliesRecognized(req.body)
    /\ res.status = 400

\* C6: once a delete of id X has succeeded, X is never in the store again:
\* every later get-by-id of X is answered 404 and no later list holds X.
C6_DeletedStaysGone ==
    \A x \in deleted :
        /\ x \notin DOMAIN store
        /\ (req.op = "get" /\ req.id = x) =>
                res.status = 404 /\ res.error = "Item not found"
        /\ req.op = "list" =>
                \A i \in DOMAIN res.payload.items : res.payload.items[i].id # x

\* A get-by-id of an id whose delete succeeded earlier
C6_Witness ==
    /\ req.op = "get"
    /\ req.id \in deleted
    /\ res.status = 404

\* C7: the ids of the stored items are pairwise distinct, and no id is given
\* to two inserted items, also after the first was deleted.
C7_IdsNeverReused ==
    /\ \A i, j \in DOMAIN store : i # j => store[i].id # store[j].id
    /\ \A i \in DOMAIN store : store[i].id = i
    /\ \A i, j \in DOMAIN created : i # j => created[i] # created[j]
    /\ Created => res.payload.item.id \notin DOMAIN prev \cup deleted

\* A create answered 201 after an earlier item was deleted
C7_Witness ==
    /\ Created
    /\ deleted # {}
    /\ Len(created) = 2

\* Position of id x in sequence s of ids or of rows
CreatedAtIndex(x) == CHOOSE i \in DOMAIN created : created[i] = x
ListedAtIndex(x) ==
    CHOOSE i \in DOMAIN res.payload.items : res.payload.items[i].id = x

\* C8 as stated: GET /items answers 200 with exactly the stored items, and of
\* two items the one created later comes first.
C8_Original ==
    req.op = "list" =>
        /\ res.status = 200
        /\ Len(res.payload.items) = Cardinality(DOMAIN store)
        /\ {res.payload.items[i] : i \in DOMAIN res.payload.items}
             = {store[i] : i \in DOMAIN store}
        /\ \A a, b \in DOMAIN store :
             CreatedAtIndex(a) < CreatedAtIndex(b) =>
                 ListedAtIndex(b) < ListedAtIndex(a)

ReadOps == {"list", "get", "health"}

\* C9: GET /items, GET /items/:id and GET /health leave the store unchanged,
\* and the get-by-id answers for one id between two successful mutations are
\* all the same row, the one in the store.
C9_ReadsStable ==
    /\ req.op \in ReadOps => store = prev
    /\ (req.op = "get" /\ res.status = 200) =>
            res.payload = ItemPayload(store[req.id])
    /\ \A x \in DOMAIN reads :
         \A i, j \in DOMAIN reads[x] : reads[x][i] = reads[x][j]

\* Two get-by-id answers for the same id with no mutation in between
C9_Witness ==
    /\ req.op = "get"
    /\ res.status = 200
    /\ Len(reads[req.id]) >= 2

\* C10 as stated: the same valid partial update applied to the same existing
\* item twice in a row is answered 200 both times and the second application
\* leaves every field other than updatedAt as the first left it.
C10_Original ==
    (/\ req.op = "update"
     /\ repeated
     /\ req.id \in DOMAIN prev
     /\ SuppliesRecognized(req.body)
     /\ ~BodyViolates(req.body)) =>
        /\ prevStatus = 200
        /\ res.status = 200
        /\ req.id \in DOMAIN store
        /\ \A k \in Recognized \cup {"id", "createdAt"} :
             store[req.id][k] = prev[req.id][k]

\* An id in the format the uuid() default produces
WellFormedId(id) == id \in {<<UuidNames[i]>> : i \in DOMAIN UuidNames}

\* GET /items/<id> with an id that is empty or not well formed
GetWithBadId ==
    /\ req.method = "GET"
    /\ req.path.root = "items"
    /\ Len(req.path.segs) = 1
    /\ ~WellFormedId(req.path.segs[1])

\* C11 as stated: GET /items/:id with a malformed or empty id is answered 400
\* {error: 'Invalid item ID'} by the handler's own check, before any data
\* access.
C11_Original ==
    GetWithBadId =>
        /\ res = Reject(400, "Invalid item ID")
        /\ req.op = "get"
        /\ store = prev

\* One of the storage error kinds the middleware maps
RecognizedError(e) ==
    \/ e.kind = "known" /\ e.code \in {"P2002", "P2025", "P2003"}
    \/ e.kind = "validation"

Translated == failure # NoError /\ res.via = "errorHandler"

\* C12: the middleware answers P2002 with 400 and the fixed 'already exists'
\* message, P2025 with 404 'not found', P2003 with 400 'invalid reference'
\* and a storage validation error with 400, whatever message the error
\* itself carries.
C12_RecognizedErrorsMapped ==
    (Translated /\ RecognizedError(failure)) =>
        /\ failure.code = "P2002" =>
             /\ res.status = 400
             /\ res.error = "A record with this value already exists"
        /\ failure.code = "P2025" =>
             res.status = 404 /\ res.error = "Record not found"
        /\ failure.code = "P2003" =>
             /\ res.status = 400
             /\ res.error = "Invalid reference to related record"
        /\ failure.kind = "validation" =>
             res.status = 400 /\ res.error = "Invalid data provided"
        /\ twin.err # NoError =>
             res.status = twin.res.status /\ res.error = twin.res.error

\* A unique-constraint error with a message of its own, and its twin
C12_Witness ==
    /\ Translated
    /\ failure.kind = "known"
    /\ failure.code = "P2002"
    /\ failure.message = "secret"
    /\ twin.err.message = "boom"
    /\ res.status = 400

\* An error handed to the middleware that is none of the mapped kinds
Unrecognized == Translated /\ ~RecognizedError(failure)

\* err.message || 'Internal Server Error'
OwnMessageOrFallback(e) ==
    IF e.message # "" THEN e.message ELSE "Internal Server Error"

\* C13 as stated: every error that is none of the recognized storage error
\* kinds is answered 500, with its own message or the generic fallback.
C13_Original ==
    Unrecognized =>
        res.status = 500 /\ res.error = OwnMessageOrFallback(failure)

\* C13 amended: every such error is answered with the status of its own
\* statusCode property, 500 when it has none, and with its own message, the
\* generic fallback 'Internal Server Error' when it has none.
C13_UnrecognizedKeepOwnStatus ==
    Unrecognized =>
        /\ res.status = IF failure.statusCode # 0 THEN failure.statusCode ELSE 500
        /\ res.error = OwnMessageOrFallback(failure)

\* An error with statusCode 400, and one without statusCode and message
C13_Witness ==
    /\ Unrecognized
    /\ failure.statusCode = 400
    /\ res.status = 400
    /\ twin.err.message = ""
    /\ twin.res.error = "Internal Server Error"

\* The body of a response: what res.json() was given
Body(r) == [k \in DOMAIN r \ {"status", "via"} |-> r[k]]

\* C14 as stated: in production the body of a 500 response for an unexpected
\* error is the same for two errors that differ in message text only.
C14_Original ==
    (/\ Unrecognized
     /\ NODE_ENV = "production"
     /\ res.status = 500
     /\ twin.err # NoError) =>
        Body(res) = Body(twin.res)

HasStackAndDetails(r) == "stack" \in DOMAIN r /\ "details" \in DOMAIN r
HasStackOrDetails(r) == "stack" \in DOMAIN r \/ "details" \in DOMAIN r

\* C15 as stated: a response of the middleware carries stack and details in
\* every environment other than production and never in production.
C15_Original ==
    Translated =>
        IF NODE_ENV = "production" THEN ~HasStackOrDetails(res)
        ELSE HasStackAndDetails(res)

\* C15 amended: a response of the middleware carries stack and details, the
\* error's own stack and message, exactly when NODE_ENV is 'development'; in
\* production, and in every other environment, it carries neither.
C15_StackOnlyInDevelopment ==
    Translated =>
        IF NODE_ENV = "development"
        THEN /\ HasStackAndDetails(res)
             /\ res.stack = failure.stack
             /\ res.details = failure.message
        ELSE ~HasStackOrDetails(res)

\* An error answered in the test environment, without stack and details
C15_Witness ==
    /\ Translated
    /\ NODE_ENV = "test"
    /\ failure.message = "secret"
    /\ ~HasStackOrDetails(res)

Signalled == proc.signals # << >>
Exited == proc.exitCode # -1
ShutdownDisconnectCalled ==
    \E i \in DOMAIN proc.disconnects : proc.disconnects[i] = "shutdown"

\* C16: once a termination signal was handled, once or repeatedly, the server
\* accepts no new connection; prisma.$disconnect() is called only when no
\* request is in flight and the HTTP server has closed; and the process exits
\* with status 0 only after a $disconnect() has resolved.
C16_ShutdownOrder ==
    /\ Signalled => ~proc.accepting
    /\ ShutdownDisconnectCalled =>
         /\ Signalled
         /\ proc.inflight = 0
         /\ proc.closeEmitted
    /\ proc.exitCode = 0 =>
         /\ ShutdownDisconnectCalled
         /\ proc.released

\* Exit 0 after two signals, a request having been answered
C16_Witness ==
    /\ proc.exitCode = 0
    /\ Len(proc.signals) = 2
    /\ Len(proc.disconnects) = 2
    /\ nreq > 0

\* C17: after a handled termination signal the process eventually exits; it
\* exits with status 0 exactly when a $disconnect() resolved, with status 1
\* when the $disconnect() was rejected, and with status 1 through the timer
\* when it exits while requests are still in flight.
C17_EventuallyExits ==
    /\ Signalled ~> Exited
    /\ [](Signalled /\ Exited =>
            /\ proc.exitCode \in {0, 1}
            /\ proc.exitCode = 0 <=> "shutdown completed" \in proc.log
            /\ "shutdown error" \in proc.log => proc.exitCode = 1
            /\ proc.inflight > 0 =>
                 proc.exitCode = 1 /\ "forced" \in proc.log)

\* The timer ended the process while a request was still in flight
C17_Witness ==
    /\ Signalled
    /\ proc.exitCode = 1
    /\ "forced" \in proc.log
    /\ proc.inflight > 0

\* $connect() was rejected
StartupFailed == "failed to start" \in proc.log

\* The store cannot be reached: no DATABASE_URL, or $connect() was rejected
StoreUnreachable == StartupFailed \/ "uncaught" \in proc.log

\* C18 as stated: when the store cannot be reached at startup the process
\* logs the failure, attempts to release the persistence handle, never starts
\* the listener, serves no request and exits with a nonzero status.
C18_Original ==
    StoreUnreachable =>
        /\ "failed to start" \in proc.log
        /\ proc.disconnects # << >>
        /\ ~proc.everListened
        /\ nreq = 0
        /\ Exited => proc.exitCode # 0

\* C18 amended: when $connect() is rejected the failure is logged, one
\* $disconnect() is attempted, and the process exits with status 1 unless a
\* signal ends it first; when DATABASE_URL is missing the process ends with
\* status 1 while loading, without log entry of startServer and without a
\* release attempt; in both cases the listener is never started and no
\* request is served; the listener starts only after $connect() has resolved.
C18_StartupFailureIsFatal ==
    /\ StartupFailed =>
         /\ ~proc.everListened
         /\ ~proc.accepting
         /\ nreq = 0
         /\ proc.disconnects = <<"startup">>
         /\ Exited => proc.exitCode # 0
         /\ (Exited /\ "killed" \notin proc.log) => proc.exitCode = 1
    /\ "uncaught" \in proc.log =>
         /\ ~proc.url
         /\ ~proc.everListened
         /\ nreq = 0
         /\ proc.disconnects = << >>
         /\ proc.exitCode = 1
    /\ ~proc.url => ~proc.everListened /\ nreq = 0 /\ proc.exitCode # 0
    /\ proc.everListened => "connected" \in proc.log

\* The process has exited with status 1 after a failed connection
C18_Witness ==
    /\ StartupFailed
    /\ proc.exitCode = 1
    /\ proc.settling = 0

\* The last request's method and path match no route
NoRouteMatches == req.method \in Methods /\ Route(req.method, req.path) = "none"

ReachesRouting ==
    /\ req.op # "unparsed"
    /\ ~(req.method = "OPTIONS" /\ Allowed(req.path) # {})

AddressesMissingItem ==
    /\ req.op \in {"get", "update", "delete"}
    /\ NonBlank(req.id)
    /\ req.id \notin DOMAIN prev
    /\ req.op = "update" =>
         /\ SuppliesRecognized(req.body)
         /\ ~BodyViolates(req.body)
         /\ StorageAccepts(req.body)

\* C20 as stated: a get, an update and a delete that address an id that does
\* not exist each answer 404 with the same body {error: 'Item not found'}.
C20_Original ==
    AddressesMissingItem =>
        /\ res.status = 404
        /\ res.error = "Item not found"
        /\ ~HasStackOrDetails(res)

Concurrent ==
    /\ Len(pending) = 2
    /\ pending[2].open = {1}

\* Both are deletes of one id, which was stored when the second arrived
ConcurrentDeletes ==
    /\ Concurrent
    /\ pending[1].req.op = "delete"
    /\ pending[2].req.op = "delete"
    /\ pending[1].req.id = pending[2].req.id
    /\ pending[1].req.id \in DOMAIN pending[2].before

\* C22: of two concurrent deletes of one stored id, the one whose statement
\* runs first is answered 200 with the success confirmation and removes the
\* row; the other is answered 404; every other row stays as it was.
C22_ConcurrentDeletes ==
    ConcurrentDeletes =>
        LET id == pending[1].req.id
            before == pending[2].before
            done == DOMAIN pending \ Awaiting
        IN /\ done = {} => store = before
           /\ done # {} =>
                /\ \E i \in done :
                      /\ pending[i].res = Reply(200, DeletedPayload)
                      /\ \A j \in done \ {i} : pending[j].res.status = 404
                /\ id \notin DOMAIN store
                /\ DOMAIN store = DOMAIN before \ {id}
                /\ \A other \in DOMAIN store : store[other] = before[other]

C22_Witness ==
    /\ ConcurrentDeletes
    /\ Awaiting = {}
    /\ pending[2].res.status = 200
    /\ pending[1].res.status = 404
    /\ DOMAIN store # {}

\* ------------------------------------------------------------------- C23
\* The recognized fields body b supplies
Supplied(b) == {k \in Recognized : b[k] # Undefined}

\* Both are updates of one id, which was stored when the second arrived,
\* with rule-abiding bodies that supply disjoint sets of fields
ConcurrentUpdates ==
    /\ Concurrent
    /\ pending[1].req.op = "update"
    /\ pending[2].req.op = "update"
    /\ pending[1].req.id = pending[2].req.id
    /\ pending[1].req.id \in DOMAIN pending[2].before
    /\ \A i \in 1..2 :
          /\ Supplied(pending[i].req.body) # {}
          /\ ~BodyViolates(pending[i].req.body)
    /\ Supplied(pending[1].req.body) \cap Supplied(pending[2].req.body) = {}

\* C23 as stated: two concurrent updates of one stored item that supply
\* disjoint sets of fields both succeed, and the final item holds the values
\* of both, whichever statement runs first.
C23_Original ==
    ConcurrentUpdates /\ Awaiting = {} =>
        /\ \A i \in 1..2 : pending[i].res.status = 200
        /\ \A i \in 1..2 : \A k \in Supplied(pending[i].req.body) :
              store[pending[1].req.id][k] = AsStored(k, pending[i].req.body[k])

\* ------------------------------------------------------------------- C24
\* Text s is not empty and neither starts nor ends with whitespace
TrimmedText(s) == Trim(s) = s
NonEmptyTrimmed(s) == s # << >> /\ TrimmedText(s)

WellFormed(row) ==
    /\ NonEmptyTrimmed(row.name)
    /\ NonEmptyTrimmed(row.category)
    /\ NonEmptyTrimmed(row.ownerID)
    /\ TrimmedText(row.description)
    /\ ~RuleViolated("quantity", row.quantity)
    /\ ~RuleViolated("unitPrice", row.unitPrice)

\* C24: in every state reached from the empty store through requests, each
\* stored item has a non-empty trimmed name, category and ownerID, a trimmed
\* description, a non-negative integer quantity and a non-negative
\* unitPrice.
C24_StoredItemsWellFormed ==
    \A id \in DOMAIN store : WellFormed(store[id])

\* An update has stored a name that came padded, after a create, and an
\* ill-formed value had been refused before
C24_Witness ==
    /\ UpdatedOk
    /\ req.body.name = JStr(PaddedX)
    /\ store[req.id].name = X
    /\ prevStatus = 400
    /\ nreq = 3

\* ------------------------------------------------------------------- C25
\* C25: every stored item has updatedAt >= createdAt; no request changes the
\* createdAt of an item; a successful update sets updatedAt no earlier than
\* it was; an update that fails leaves the store as it was.
C25_TimestampsOrdered ==
    /\ \A id \in DOMAIN store : store[id].updatedAt >= store[id].createdAt
    /\ \A id \in DOMAIN store \cap DOMAIN prev :
          /\ store[id].createdAt = prev[id].createdAt
          /\ store[id].updatedAt >= prev[id].updatedAt
    /\ UpdatedOk =>
          /\ store[req.id].updatedAt >= prev[req.id].updatedAt
          /\ store[req.id].updatedAt <= now
    /\ req.op = "update" /\ res.status >= 400 => store = prev

\* An update made after the clock advanced, and then an update that failed
C25_Witness ==
    /\ req.op = "update"
    /\ res.status >= 400
    /\ prevStatus = 200
    /\ req.id \in DOMAIN store
    /\ store[req.id].updatedAt > store[req.id].createdAt

\* ------------------------------------------------------------------- C26
ItemOps == {"list", "get", "create", "update", "delete"}

\* C26: a request an item handler has handled got exactly one outcome, one
\* response written by the handler or one error forwarded to the error
\* middleware; an exception of the data-access layer is always forwarded,
\* and it is the error middleware that answers a forwarded error.
C26_ExactlyOneOutcome ==
    req.op \in ItemOps =>
        /\ effects.written + effects.forwarded = 1
        /\ effects.threw => effects.forwarded = 1 /\ effects.written = 0
        /\ effects.forwarded = 1 <=> failure # NoError
        /\ effects.forwarded = 1 =>
              res.via = "errorHandler" /\ res = errorHandler(failure)
        /\ effects.written = 1 => res.via = "handler"

\* A delete whose statement raised P2025
C26_Witness ==
    /\ req.op = "delete"
    /\ effects.threw
    /\ effects.forwarded = 1
    /\ failure = KnownRequestError("P2025")
    /\ res.status = 404

\* ------------------------------------------------------------------- C27
\* The handler itself answered 400
InlineRejected ==
    /\ req.op \in {"create", "update", "get", "delete"}
    /\ res.status = 400
    /\ res.via = "handler"

\* C27: a create, update, get or delete that its handler answers with 400
\* has made no call to the data-access layer and leaves the store as it
\* was.
C27_ValidationBeforePersistence ==
    InlineRejected => effects.calls = 0 /\ store = prev

\* An update of a stored item refused for its body
C27_Witness ==
    /\ InlineRejected
    /\ req.op = "update"
    /\ req.id \in DOMAIN store
    /\ BodyViolates(req.body)

\* ------------------------------------------------------------------- C28
\* The order in which the fields are judged
FieldOrder ==
    <<"name", "description", "quantity", "unitPrice", "category", "ownerID">>

\* The message that names field k
MessageNaming(k) ==
    CASE k = "name" -> "Name must be a non-empty string"
      [] k = "description" -> "Description must be a string"
      [] k = "quantity" -> "Quantity must be a non-negative integer"
      [] k = "unitPrice" -> "Unit price must be a non-negative number"
      [] k = "category" -> "Category must be a non-empty string"
      [] k = "ownerID" -> "Owner ID must be a non-empty string"

\* The places in FieldOrder of the supplied fields of b that break their rule
InvalidAt(b) ==
    {i \in DOMAIN FieldOrder :
        b[FieldOrder[i]] # Undefined /\ RuleViolated(FieldOrder[i], b[FieldOrder[i]])}

FirstInvalid(b) ==
    FieldOrder[CHOOSE i \in InvalidAt(b) : \A j \in InvalidAt(b) : i <= j]

\* The response the other of the two handlers gives the body of req: update
\* of a stored item for a create, create for an update
OtherHandlerResponse ==
    IF req.op = "create"
    THEN updateItem(OneDefaultRow, <<"a">>, req.body, now,
                    KnownRequestError("P2020")).res
    ELSE createItem(prev, req.body, <<"b">>, now,
                    KnownRequestError("P2020")).res

InlineRejection(r) == r.status = 400 /\ r.via = "handler"

\* C28: a create, or an update with a non-blank id and at least one
\* recognized field, whose body has invalid fields is answered 400 with the
\* message naming the first invalid field in the order name, description,
\* quantity, unitPrice, category, ownerID; a body without an invalid field
\* is not rejected by the handler; and the other handler gives the same body
\* the same verdict and the same message.
C28_FirstInvalidFieldNamed ==
    BodyJudged =>
        /\ InvalidAt(req.body) # {} =>
              /\ InlineRejection(res)
              /\ res.error = MessageNaming(FirstInvalid(req.body))
        /\ InvalidAt(req.body) = {} => ~InlineRejection(res)
        /\ SuppliesRecognized(req.body) =>
              /\ InlineRejection(res) <=> InlineRejection(OtherHandlerResponse)
              /\ InlineRejection(res) => OtherHandlerResponse = res

\* An update whose quantity and ownerID are both invalid
C28_Witness ==
    /\ req.op = "update"
    /\ BodyJudged
    /\ InvalidAt(req.body) = {3, 6}
    /\ res.error = MessageNaming("quantity")

\* ------------------------------------------------------------------- C29
\* The fields of FieldOrder that body b gives as null
NullFields(b) == {k \in Recognized \ {"date"} : b[k] = Null}

EmptyBodyMessage ==
    "At least one field (name, description, quantity, unitPrice, category, date, or ownerID) must be provided"

\* C29: a create, or an update with a non-blank id, whose body gives name,
\* description, quantity, unitPrice, category or ownerID as null is rejected
\* by the handler with 400 and a message naming a field, and nothing is
\* stored or changed; an update whose body gives any recognized key as null
\* is not answered as an empty body.
C29_NullIsNotAbsent ==
    (req.op = "create" \/ (req.op = "update" /\ NonBlank(req.id))) =>
        /\ NullFields(req.body) # {} =>
              /\ InlineRejection(res)
              /\ \E k \in Recognized \ {"date"} :
                    /\ req.body[k] # Undefined
                    /\ res.error = MessageNaming(k)
              /\ store = prev
        /\ (\E k \in Recognized : req.body[k] = Null) =>
              res.error # EmptyBodyMessage

\* An update of a stored item whose only key is category, given as null
C29_Witness ==
    /\ req.op = "update"
    /\ req.id \in DOMAIN store
    /\ Supplied(req.body) = {"category"}
    /\ req.body.category = Null
    /\ res.status = 400
    /\ res.error = MessageNaming("category")

\* ------------------------------------------------------------------- C30
\* The body b without its keys outside the seven recognized fields
Stripped(b) == [k \in DOMAIN b |-> IF k \in Recognized THEN b[k] ELSE Undefined]

\* The body of req holds a key outside the seven recognized fields
HasOtherKey == \E k \in DOMAIN req.body \ Recognized : req.body[k] # Undefined

\* C30: when the body holds keys outside the seven recognized fields, the
\* store after a successful create or update is the one the same request
\* without those keys leaves; a created item gets a new id and the clock's
\* createdAt and updatedAt, every field the body does not supply at its
\* default; an updated item keeps its id and createdAt; and an update with
\* a non-blank id whose body holds only such keys is rejected as empty with
\* 400, the store unchanged.
C30_OtherKeysNeverStored ==
    HasOtherKey =>
        /\ Created =>
              LET it == res.payload.item IN
              /\ it.id \in DOMAIN store \ DOMAIN prev
              /\ \A i \in DOMAIN prev : store[i] = prev[i]
              /\ store = createItem(prev, Stripped(req.body), it.id, now,
                                    KnownRequestError("P2020")).store
              /\ it.createdAt = now
              /\ it.updatedAt = now
              /\ \A k \in Recognized :
                    req.body[k] = Undefined =>
                        it[k] = IF k = "date" THEN now ELSE SchemaDefault(k)
        /\ req.op = "create" /\ ~SuppliesRecognized(req.body) => Created
        /\ UpdatedOk =>
              /\ store = updateItem(prev, req.id, Stripped(req.body), now,
                                    KnownRequestError("P2020")).store
              /\ DOMAIN store = DOMAIN prev
              /\ store[req.id].id = req.id
              /\ store[req.id].createdAt = prev[req.id].createdAt
              /\ store[req.id].updatedAt = now
        /\ req.op = "update" /\ NonBlank(req.id) /\ ~SuppliesRecognized(req.body) =>
              /\ InlineRejection(res)
              /\ res.error = EmptyBodyMessage
              /\ store = prev

\* A create whose body holds only the id of a stored item
C30_Witness ==
    /\ Created
    /\ ~SuppliesRecognized(req.body)
    /\ req.body.id = JStr(<<"a">>)
    /\ <<"a">> \in DOMAIN prev
    /\ res.payload.item.id # <<"a">>
    /\ res.payload.item.name = DefaultName

====
